---- MODULE Spec2Model ----
(***************************************************************************)
(* Model of sim_energy_system_cap.py: a solar cell charging a capacitor   *)
(* (with series resistance) that feeds a load which switches off at low   *)
(* voltage and on again once the capacitor is full.                       *)
(*                                                                         *)
(* Numbers.  The script computes with Python floats.  Here a real r is    *)
(* the integer r*SCALE (fixed point, two decimals).  Sums, differences    *)
(* and comparisons are exact; a product of two such numbers is rounded    *)
(* back to the grid (Mul), a quotient is rounded to the grid (Div), and   *)
(* the discriminant, a difference of products, is carried unrounded at    *)
(* scale SCALE*SCALE so that sqrt(x**2) = |x| as it is for floats.        *)
(* Of the special float values only nan appears, as the placeholder the   *)
(* script gives its parameters before parsing.                            *)
(*                                                                         *)
(* Control.  The script is straight-line code around one while loop; pc   *)
(* is the position in it and every action is one statement (or one        *)
(* if-statement) of the script.  A Python exception ends the run where it  *)
(* is raised: err takes its name and pc stays at the failing statement.   *)
(***************************************************************************)
EXTENDS Integers, Sequences, FiniteSets, TLC

VARIABLES
    argv,        \* sys.argv[1:], the arguments after the script name
    stdout,      \* the lines printed so far
    pc,          \* position in the script
    err,         \* name of the uncaught exception, "" if none
    sa_m2, eff, voc, c_f, r_esr, q0_c, p_on_w, v_thresh, dt_s, dur_s,
    isc_a, i1_a, qt_c, p_mode_w, t_s, node_discr, node_v, i3_a,
    log,         \* the retained tail of the list `log`: <<t_s, node_v>> pairs
    outfile,     \* ./log.csv
    vin,         \* history: charge, current and power the last voltage was computed from
    fired,       \* history: switching rules that took effect in the current step
    used,        \* history: per retained sample, its vin and fired
    truncated    \* history: TRUE once the model has dropped the oldest samples

params == <<sa_m2, eff, voc, c_f, r_esr, q0_c, p_on_w, v_thresh, dt_s, dur_s>>
elec   == <<isc_a, i1_a, qt_c, p_mode_w, t_s, node_discr, node_v, i3_a>>
hist   == <<vin, fired, used, truncated>>
vars   == <<argv, stdout, pc, err, params, elec, log, outfile, hist>>

(***************************************************************************)
(* Fixed point arithmetic                                                  *)
(***************************************************************************)
SCALE == 100

\* solar irradiance (W/m^2): 1336.1
irrad == 133610

\* The model retains at most this many samples of the trace.
MaxLog == 12

\* float('nan'), the placeholder of a parameter before parsing, and the
\* mark of a name that is not bound yet: two numbers no run computes with
NaN == 0 - 999999
Unset == 0 - 999998

Abs(n) == IF n < 0 THEN 0 - n ELSE n
Sgn(n) == IF n < 0 THEN 0 - 1 ELSE IF n > 0 THEN 1 ELSE 0

\* n/d rounded to the nearest integer (ties away from zero); d # 0
RoundDiv(n, d) == Sgn(n) * Sgn(d) * ((2 * Abs(n) + Abs(d)) \div (2 * Abs(d)))

\* a*b and a/b of two fixed point numbers, as fixed point numbers
Mul(a, b) == RoundDiv(a * b, SCALE)
Div(a, b) == RoundDiv(a * SCALE, b)

RECURSIVE Bisect(_, _, _)
\* the r in lo..hi-1 with r*r <= n < (r+1)*(r+1), given lo*lo <= n < hi*hi
Bisect(n, lo, hi) ==
    IF hi - lo <= 1 THEN lo
    ELSE LET mid == (lo + hi) \div 2
         IN  IF mid * mid <= n THEN Bisect(n, mid, hi) ELSE Bisect(n, lo, mid)

\* math.sqrt of a number carried at scale SCALE*SCALE, as a fixed point
\* number: the integer nearest to the square root; n >= 0
Sqrt(n) ==
    LET r == Bisect(n, 0, (IF n < 46340 THEN n ELSE 46340) + 1)
    IN  IF n - r * r > r THEN r + 1 ELSE r

(***************************************************************************)
(* Utility functions of the script.  Each is called only where its        *)
(* divisor is nonzero and its radicand non-negative; the calling actions  *)
(* raise the exception otherwise.                                         *)
(***************************************************************************)
calc_solar_current(irr_w_m2, sa, ef, v_oc) ==
    RoundDiv(irr_w_m2 * sa * ef, SCALE * v_oc)

\* the result is carried at scale SCALE*SCALE
calc_node_discr(q_c, cap_f, i_a, esr_ohm, power_w) ==
    LET x == Div(q_c, cap_f) + Mul(i_a, esr_ohm)
    IN  x * x - 4 * power_w * esr_ohm

\* calc_node_voltage with the smaller root of the node equation.
calc_node_voltage_MinusRoot(disc, q_c, cap_f, i_a, esr_ohm) ==
    RoundDiv(Div(q_c, cap_f) + Mul(i_a, esr_ohm) - Sqrt(disc), 2)

calc_node_voltage(disc, q_c, cap_f, i_a, esr_ohm) ==
    RoundDiv(Div(q_c, cap_f) + Mul(i_a, esr_ohm) + Sqrt(disc), 2)

(***************************************************************************)
(* Inputs: the argument vectors the runs are started with.  A vector of   *)
(* ten numbers is a parameter set; the two others have a wrong count.     *)
(***************************************************************************)
SaSet     == {0, 1}
EffSet    == {20}
VocSet    == {0, 200, 400}
CapSet    == {0, 100}
EsrSet    == {0, 100}
Q0Set     == {0 - 100, 0, 300, 500}
POnSet    == {0, 100}
VThreshSet == {0, 100, 300}
DtSet     == {0, 50, 100}
DurSet    == {0, 100, 250}

ParamVectors ==
    { <<a, e, v, c, r, q, p, th, dt, du>> :
        a \in SaSet, e \in EffSet, v \in VocSet, c \in CapSet, r \in EsrSet,
        q \in Q0Set, p \in POnSet, th \in VThreshSet, dt \in DtSet, du \in DurSet }

\* duration 10 s in steps of 1 s
LongVectors == { <<1, 20, 400, 100, 100, 300, 100, 300, 100, 1000>>,
                 <<0, 20, 400, 100, 100, 500, 100, 300, 100, 1000>>,
                 <<3, 20, 400, 100, 0, 200, 200, 300, 100, 1000>> }

\* a negative initial charge under an array strong enough to lift the
\* node above voc
EdgeVectors == { <<3, 20, 200, 100, 100, 0 - 100, 0, 0, 100, 250>> }

BadVectors == { <<>>, <<1, 20, 400, 100, 100, 300, 100, 300, 100>>,
                <<1, 20, 400, 100, 100, 300, 100, 300, 100, 250, 0>> }

NoFile == [exists |-> FALSE, rows |-> <<>>]

\* Lines 57-60: the usage line.
Usage ==
    "Usage: python3 sim_energy_system_cap.py sa_m2 eff voc c_f r_esr q0_c p_on_w v_thresh dt_s dur_s"

(***************************************************************************)
(* Lines 29-42: the state when the script starts parsing its arguments.   *)
(***************************************************************************)
Init ==
    /\ argv \in ParamVectors \cup LongVectors \cup EdgeVectors \cup BadVectors
    /\ stdout = <<>>
    /\ pc = "parse"
    /\ err = ""
    /\ sa_m2 = NaN /\ eff = NaN /\ voc = NaN /\ c_f = NaN /\ r_esr = NaN
    /\ q0_c = NaN /\ p_on_w = NaN /\ v_thresh = NaN /\ dt_s = NaN /\ dur_s = NaN
    /\ isc_a = Unset /\ i1_a = Unset /\ qt_c = Unset /\ p_mode_w = Unset
    /\ t_s = Unset /\ node_discr = Unset /\ node_v = Unset /\ i3_a = Unset
    /\ log = <<>>
    /\ outfile = NoFile
    /\ vin = [q |-> Unset, i |-> Unset, p |-> Unset] /\ fired = {} /\ used = <<>> /\ truncated = FALSE

\* Parse accepting ten or more arguments, the surplus ignored.
Parse_AtLeast ==
    /\ pc = "parse" /\ err = ""
    /\ IF Len(argv) + 1 >= 11
       THEN /\ sa_m2' = argv[1] /\ eff' = argv[2] /\ voc' = argv[3]
            /\ c_f' = argv[4] /\ r_esr' = argv[5] /\ q0_c' = argv[6]
            /\ p_on_w' = argv[7] /\ v_thresh' = argv[8]
            /\ dt_s' = argv[9] /\ dur_s' = argv[10]
            /\ pc' = "setup"
            /\ stdout' = stdout
       ELSE /\ stdout' = Append(stdout, Usage)
            /\ pc' = "usage"
            /\ UNCHANGED params
    /\ UNCHANGED <<argv, err, elec, log, outfile, hist>>

\* Lines 44-62: ten arguments are taken as the parameters, any other
\* count prints the usage line and exits.
Parse ==
    /\ pc = "parse" /\ err = ""
    /\ IF Len(argv) + 1 = 11
       THEN /\ sa_m2' = argv[1] /\ eff' = argv[2] /\ voc' = argv[3]
            /\ c_f' = argv[4] /\ r_esr' = argv[5] /\ q0_c' = argv[6]
            /\ p_on_w' = argv[7] /\ v_thresh' = argv[8]
            /\ dt_s' = argv[9] /\ dur_s' = argv[10]
            /\ pc' = "setup"
            /\ stdout' = stdout
       ELSE /\ stdout' = Append(stdout, Usage)
            /\ pc' = "usage"
            /\ UNCHANGED params
    /\ UNCHANGED <<argv, err, elec, log, outfile, hist>>

\* Lines 76-81: set initial values.
SetInitial ==
    /\ pc = "setup" /\ err = ""
    /\ IF voc = 0
       THEN /\ pc' = pc /\ err' = "ZeroDivisionError"
            /\ UNCHANGED <<isc_a, i1_a, qt_c, p_mode_w, t_s>>
       ELSE /\ isc_a' = calc_solar_current(irrad, sa_m2, eff, voc)
            /\ i1_a' = isc_a'
            /\ qt_c' = q0_c
            /\ p_mode_w' = p_on_w
            /\ t_s' = 0
            /\ pc' = "idiscr" /\ err' = err
    /\ UNCHANGED <<argv, stdout, params, node_discr, node_v, i3_a, log, outfile, hist>>

\* Lines 83-88: initial node discriminant, the load is dropped when it
\* cannot be supplied.
InitDiscr ==
    /\ pc = "idiscr" /\ err = ""
    /\ IF c_f = 0
       THEN /\ pc' = pc /\ err' = "ZeroDivisionError"
            /\ UNCHANGED <<p_mode_w, node_discr, fired>>
       ELSE LET d == calc_node_discr(qt_c, c_f, i1_a, r_esr, p_mode_w)
            IN  /\ IF d < 0
                   THEN /\ p_mode_w' = 0
                        /\ node_discr' = calc_node_discr(qt_c, c_f, i1_a, r_esr, 0)
                        /\ fired' = fired \cup {"fallback"}
                   ELSE /\ node_discr' = d
                        /\ UNCHANGED <<p_mode_w, fired>>
                /\ pc' = "ivolt" /\ err' = err
    /\ UNCHANGED <<argv, stdout, params, isc_a, i1_a, qt_c, t_s, node_v, i3_a, log,
                   outfile, vin, used, truncated>>

\* Lines 90-92: initial node voltage and first sample.
InitVoltage ==
    /\ pc = "ivolt" /\ err = ""
    /\ IF node_discr < 0
       THEN /\ pc' = pc /\ err' = "ValueError"
            /\ UNCHANGED <<node_v, log, vin, used>>
       ELSE /\ node_v' = calc_node_voltage(node_discr, qt_c, c_f, i1_a, r_esr)
            /\ vin' = [q |-> qt_c, i |-> i1_a, p |-> p_mode_w]
            /\ log' = << <<t_s, node_v'>> >>
            /\ used' = << [in |-> vin', fired |-> fired] >>
            /\ pc' = "iclamp" /\ err' = err
    /\ UNCHANGED <<argv, stdout, params, isc_a, i1_a, qt_c, p_mode_w, t_s, node_discr,
                   i3_a, outfile, fired, truncated>>

\* Lines 94-96: solar cell cannot produce current at high voltage.
InitClamp ==
    /\ pc = "iclamp" /\ err = ""
    /\ IF voc <= node_v /\ i1_a # 0
       THEN /\ i1_a' = 0
            /\ fired' = fired \cup {"clamp"}
       ELSE UNCHANGED <<i1_a, fired>>
    /\ used' = [used EXCEPT ![1].fired = fired']
    /\ pc' = "ithresh"
    /\ UNCHANGED <<argv, stdout, err, params, isc_a, qt_c, p_mode_w, t_s, node_discr,
                   node_v, i3_a, log, outfile, vin, truncated>>

\* Lines 98-100: energy consumers cannot operate at low voltage.
InitThresh ==
    /\ pc = "ithresh" /\ err = ""
    /\ IF node_v < v_thresh
       THEN /\ p_mode_w' = 0
            /\ fired' = fired \cup {"thresh"}
       ELSE UNCHANGED <<p_mode_w, fired>>
    /\ used' = [used EXCEPT ![1].fired = fired']
    /\ pc' = "test"
    /\ UNCHANGED <<argv, stdout, err, params, isc_a, i1_a, qt_c, t_s, node_discr,
                   node_v, i3_a, log, outfile, vin, truncated>>

(***************************************************************************)
(* The while loop, lines 102-134.                                          *)
(***************************************************************************)
\* LoopTest with <= for <: the loop also runs when the time of the last
\* sample equals dur_s.
LoopTest_Inclusive ==
    /\ pc = "test" /\ err = ""
    /\ pc' = IF log[Len(log)][1] <= dur_s THEN "load" ELSE "write"
    /\ UNCHANGED <<argv, stdout, err, params, elec, log, outfile, hist>>

\* Line 103: the loop runs while the time of the last sample is below dur_s.
LoopTest ==
    /\ pc = "test" /\ err = ""
    /\ pc' = IF log[Len(log)][1] < dur_s THEN "load" ELSE "write"
    /\ UNCHANGED <<argv, stdout, err, params, elec, log, outfile, hist>>

\* LoadCurrent with the division guarded: no load current at zero voltage.
LoadCurrent_Guarded ==
    /\ pc = "load" /\ err = ""
    /\ i3_a' = IF node_v = 0 THEN 0 ELSE Div(p_mode_w, node_v)
    /\ pc' = "charge" /\ err' = err
    /\ fired' = {}
    /\ UNCHANGED <<argv, stdout, params, isc_a, i1_a, qt_c, p_mode_w, t_s, node_discr,
                   node_v, log, outfile, vin, used, truncated>>

\* LoadCurrent drawing the rated power whatever the mode.
LoadCurrent_AlwaysOn ==
    /\ pc = "load" /\ err = ""
    /\ IF node_v = 0
       THEN /\ pc' = pc /\ err' = "ZeroDivisionError"
            /\ UNCHANGED i3_a
       ELSE /\ i3_a' = Div(p_on_w, node_v)
            /\ pc' = "charge" /\ err' = err
    /\ fired' = {}
    /\ UNCHANGED <<argv, stdout, params, isc_a, i1_a, qt_c, p_mode_w, t_s, node_discr,
                   node_v, log, outfile, vin, used, truncated>>

\* Lines 105-106: load current, from the voltage of the previous step.
LoadCurrent ==
    /\ pc = "load" /\ err = ""
    /\ IF node_v = 0
       THEN /\ pc' = pc /\ err' = "ZeroDivisionError"
            /\ UNCHANGED i3_a
       ELSE /\ i3_a' = Div(p_mode_w, node_v)
            /\ pc' = "charge" /\ err' = err
    /\ fired' = {}
    /\ UNCHANGED <<argv, stdout, params, isc_a, i1_a, qt_c, p_mode_w, t_s, node_discr,
                   node_v, log, outfile, vin, used, truncated>>

\* UpdateCharge with the source current of this step's voltage test
\* instead of the one the previous step left.
UpdateCharge_Recomputed ==
    /\ pc = "charge" /\ err = ""
    /\ LET i == IF 0 <= node_v /\ node_v < voc THEN isc_a ELSE 0
           q == qt_c + Mul(i - i3_a, dt_s)
       IN  qt_c' = IF q < 0 THEN 0 ELSE q
    /\ pc' = "solar"
    /\ UNCHANGED <<argv, stdout, err, params, isc_a, i1_a, p_mode_w, t_s, node_discr,
                   node_v, i3_a, log, outfile, hist>>

\* UpdateCharge without the floor at zero.
UpdateCharge_NoFloor ==
    /\ pc = "charge" /\ err = ""
    /\ qt_c' = qt_c + Mul(i1_a - i3_a, dt_s)
    /\ pc' = "solar"
    /\ UNCHANGED <<argv, stdout, err, params, isc_a, i1_a, p_mode_w, t_s, node_discr,
                   node_v, i3_a, log, outfile, hist>>

\* UpdateCharge with the two currents exchanged.
UpdateCharge_Reversed ==
    /\ pc = "charge" /\ err = ""
    /\ LET q == qt_c + Mul(i3_a - i1_a, dt_s)
       IN  qt_c' = IF q < 0 THEN 0 ELSE q
    /\ pc' = "solar"
    /\ UNCHANGED <<argv, stdout, err, params, isc_a, i1_a, p_mode_w, t_s, node_discr,
                   node_v, i3_a, log, outfile, hist>>

\* Lines 107-110: update charge, never below zero.
UpdateCharge ==
    /\ pc = "charge" /\ err = ""
    /\ LET q == qt_c + Mul(i1_a - i3_a, dt_s)
       IN  qt_c' = IF q < 0 THEN 0 ELSE q
    /\ pc' = "solar"
    /\ UNCHANGED <<argv, stdout, err, params, isc_a, i1_a, p_mode_w, t_s, node_discr,
                   node_v, i3_a, log, outfile, hist>>

\* SetSolar with the net current (array less load) for the array current.
SetSolar_Net ==
    /\ pc = "solar" /\ err = ""
    /\ i1_a' = IF 0 <= node_v /\ node_v < voc THEN isc_a - i3_a ELSE 0
    /\ pc' = "poweron"
    /\ UNCHANGED <<argv, stdout, err, params, isc_a, qt_c, p_mode_w, t_s, node_discr,
                   node_v, i3_a, log, outfile, hist>>

\* Lines 112-113: set solar array current.
SetSolar ==
    /\ pc = "solar" /\ err = ""
    /\ i1_a' = IF 0 <= node_v /\ node_v < voc THEN isc_a ELSE 0
    /\ pc' = "poweron"
    /\ UNCHANGED <<argv, stdout, err, params, isc_a, qt_c, p_mode_w, t_s, node_discr,
                   node_v, i3_a, log, outfile, hist>>

\* PowerOn with the cutoff threshold for the resume level.
PowerOn_AtThreshold ==
    /\ pc = "poweron" /\ err = ""
    /\ IF p_mode_w = 0 /\ node_v >= v_thresh
       THEN /\ p_mode_w' = p_on_w
            /\ fired' = fired \cup {"poweron"}
       ELSE UNCHANGED <<p_mode_w, fired>>
    /\ pc' = "discr"
    /\ UNCHANGED <<argv, stdout, err, params, isc_a, i1_a, qt_c, t_s, node_discr,
                   node_v, i3_a, log, outfile, vin, used, truncated>>

\* Lines 115-117: power on after charging.
PowerOn ==
    /\ pc = "poweron" /\ err = ""
    /\ IF p_mode_w = 0 /\ node_v >= voc
       THEN /\ p_mode_w' = p_on_w
            /\ fired' = fired \cup {"poweron"}
       ELSE UNCHANGED <<p_mode_w, fired>>
    /\ pc' = "discr"
    /\ UNCHANGED <<argv, stdout, err, params, isc_a, i1_a, qt_c, t_s, node_discr,
                   node_v, i3_a, log, outfile, vin, used, truncated>>

\* Discr without the second computation: the load is dropped but the
\* negative discriminant is kept.
Discr_NoRecompute ==
    /\ pc = "discr" /\ err = ""
    /\ LET d == calc_node_discr(qt_c, c_f, i1_a, r_esr, p_mode_w)
       IN  /\ node_discr' = d
           /\ IF d < 0
              THEN /\ p_mode_w' = 0
                   /\ fired' = fired \cup {"fallback"}
              ELSE UNCHANGED <<p_mode_w, fired>>
    /\ pc' = "volt"
    /\ UNCHANGED <<argv, stdout, err, params, isc_a, i1_a, qt_c, t_s, node_v, i3_a,
                   log, outfile, vin, used, truncated>>

\* Lines 119-123: node discriminant, the load is dropped when it cannot be
\* supplied.
Discr ==
    /\ pc = "discr" /\ err = ""
    /\ LET d == calc_node_discr(qt_c, c_f, i1_a, r_esr, p_mode_w)
       IN  IF d < 0
           THEN /\ p_mode_w' = 0
                /\ node_discr' = calc_node_discr(qt_c, c_f, i1_a, r_esr, 0)
                /\ fired' = fired \cup {"fallback"}
           ELSE /\ node_discr' = d
                /\ UNCHANGED <<p_mode_w, fired>>
    /\ pc' = "volt"
    /\ UNCHANGED <<argv, stdout, err, params, isc_a, i1_a, qt_c, t_s, node_v, i3_a,
                   log, outfile, vin, used, truncated>>

\* Line 125: node voltage.
Voltage ==
    /\ pc = "volt" /\ err = ""
    /\ IF node_discr < 0
       THEN /\ pc' = pc /\ err' = "ValueError"
            /\ UNCHANGED <<node_v, vin>>
       ELSE /\ node_v' = calc_node_voltage(node_discr, qt_c, c_f, i1_a, r_esr)
            /\ vin' = [q |-> qt_c, i |-> i1_a, p |-> p_mode_w]
            /\ pc' = "clamp" /\ err' = err
    /\ UNCHANGED <<argv, stdout, params, isc_a, i1_a, qt_c, p_mode_w, t_s, node_discr,
                   i3_a, log, outfile, fired, used, truncated>>

\* Clamp with v_thresh for voc in the comparison.
Clamp_AtThreshold ==
    /\ pc = "clamp" /\ err = ""
    /\ IF v_thresh <= node_v /\ i1_a # 0
       THEN /\ i1_a' = 0
            /\ fired' = fired \cup {"clamp"}
       ELSE UNCHANGED <<i1_a, fired>>
    /\ pc' = "thresh"
    /\ UNCHANGED <<argv, stdout, err, params, isc_a, qt_c, p_mode_w, t_s, node_discr,
                   node_v, i3_a, log, outfile, vin, used, truncated>>

\* Lines 127-128: solar cell cannot produce current at high voltage.
Clamp ==
    /\ pc = "clamp" /\ err = ""
    /\ IF voc <= node_v /\ i1_a # 0
       THEN /\ i1_a' = 0
            /\ fired' = fired \cup {"clamp"}
       ELSE UNCHANGED <<i1_a, fired>>
    /\ pc' = "thresh"
    /\ UNCHANGED <<argv, stdout, err, params, isc_a, qt_c, p_mode_w, t_s, node_discr,
                   node_v, i3_a, log, outfile, vin, used, truncated>>

\* Thresh switching the load off at the threshold itself.
Thresh_Inclusive ==
    /\ pc = "thresh" /\ err = ""
    /\ IF node_v <= v_thresh
       THEN /\ p_mode_w' = 0
            /\ fired' = fired \cup {"thresh"}
       ELSE UNCHANGED <<p_mode_w, fired>>
    /\ pc' = "append"
    /\ UNCHANGED <<argv, stdout, err, params, isc_a, i1_a, qt_c, t_s, node_discr,
                   node_v, i3_a, log, outfile, vin, used, truncated>>

\* Thresh with the open-circuit voltage for the threshold.
Thresh_AtVoc ==
    /\ pc = "thresh" /\ err = ""
    /\ IF node_v < voc
       THEN /\ p_mode_w' = 0
            /\ fired' = fired \cup {"thresh"}
       ELSE UNCHANGED <<p_mode_w, fired>>
    /\ pc' = "append"
    /\ UNCHANGED <<argv, stdout, err, params, isc_a, i1_a, qt_c, t_s, node_discr,
                   node_v, i3_a, log, outfile, vin, used, truncated>>

\* Lines 130-131: energy consumers cannot operate at low voltage.
Thresh ==
    /\ pc = "thresh" /\ err = ""
    /\ IF node_v < v_thresh
       THEN /\ p_mode_w' = 0
            /\ fired' = fired \cup {"thresh"}
       ELSE UNCHANGED <<p_mode_w, fired>>
    /\ pc' = "append"
    /\ UNCHANGED <<argv, stdout, err, params, isc_a, i1_a, qt_c, t_s, node_discr,
                   node_v, i3_a, log, outfile, vin, used, truncated>>

\* s with x appended, keeping the last MaxLog entries
Keep(s, x) == IF Len(s) < MaxLog THEN Append(s, x) ELSE Append(Tail(s), x)

\* AppendSample with the time of the end of the step, as if the time were
\* advanced first.
AppendSample_Advanced ==
    /\ pc = "append" /\ err = ""
    /\ log' = Keep(log, <<t_s + dt_s, node_v>>)
    /\ used' = Keep(used, [in |-> vin, fired |-> fired])
    /\ truncated' = (truncated \/ Len(log) = MaxLog)
    /\ pc' = "advance"
    /\ UNCHANGED <<argv, stdout, err, params, elec, outfile, vin, fired>>

\* Line 133: the sample of this step, with the time not yet advanced.
AppendSample ==
    /\ pc = "append" /\ err = ""
    /\ log' = Keep(log, <<t_s, node_v>>)
    /\ used' = Keep(used, [in |-> vin, fired |-> fired])
    /\ truncated' = (truncated \/ Len(log) = MaxLog)
    /\ pc' = "advance"
    /\ UNCHANGED <<argv, stdout, err, params, elec, outfile, vin, fired>>

\* Advance that leaves the time where it is.
Advance_NoStep ==
    /\ pc = "advance" /\ err = ""
    /\ t_s' = t_s
    /\ pc' = "test"
    /\ UNCHANGED <<argv, stdout, err, params, isc_a, i1_a, qt_c, p_mode_w, node_discr,
                   node_v, i3_a, log, outfile, hist>>

\* Line 134: advance the time.
Advance ==
    /\ pc = "advance" /\ err = ""
    /\ t_s' = t_s + dt_s
    /\ pc' = "test"
    /\ UNCHANGED <<argv, stdout, err, params, isc_a, i1_a, qt_c, p_mode_w, node_discr,
                   node_v, i3_a, log, outfile, hist>>

\* Lines 136-143: the header row and one row per sample go to ./log.csv.
WriteCsv ==
    /\ pc = "write" /\ err = ""
    /\ outfile' = [exists |-> TRUE, rows |-> << <<"t_s", "volts">> >> \o log]
    /\ pc' = "done"
    /\ UNCHANGED <<argv, stdout, err, params, elec, log, hist>>

Next ==
    \/ Parse
    \/ SetInitial
    \/ InitDiscr
    \/ InitVoltage
    \/ InitClamp
    \/ InitThresh
    \/ LoopTest
    \/ LoadCurrent
    \/ UpdateCharge
    \/ SetSolar
    \/ PowerOn
    \/ Discr
    \/ Voltage
    \/ Clamp
    \/ Thresh
    \/ AppendSample
    \/ Advance
    \/ WriteCsv

Spec == Init /\ [][Next]_vars

\* The interpreter always executes the next statement of a running script.
FairSpec == Spec /\ WF_vars(Next)

(***************************************************************************)
(* Where the script is, and which of its names are bound there.           *)
(***************************************************************************)
\* isc_a, i1_a, qt_c, p_mode_w and t_s are set (lines 77-81 are done)
HasElec == pc \notin {"parse", "usage", "setup"}
\* node_v is set and the trace holds its first sample (line 92 is done)
HasVolt == HasElec /\ pc \notin {"idiscr", "ivolt"}
\* the while loop has been left
LoopExit == pc \in {"write", "done"}
\* the run is over: usage exit, normal end, or an uncaught exception
Halted == pc \in {"usage", "done"} \/ err # ""

\* the voltage the script computes from charge q, current i and power p
VoltageOf(in) ==
    calc_node_voltage(calc_node_discr(in.q, c_f, in.i, r_esr, in.p),
                      in.q, c_f, in.i, r_esr)

\* ceil(a/b) for a >= 0, b > 0
CeilDiv(a, b) == (a + b - 1) \div b

(***************************************************************************)
(* C1 (as stated): after loop exit, with duration >= 0 and dt > 0, the    *)
(* trace holds floor(duration/dt) + 2 samples and starts with             *)
(* (0, initial voltage).                                                   *)
(***************************************************************************)
C1_FloorLength ==
    (LoopExit /\ dur_s >= 0 /\ dt_s > 0) =>
        /\ Len(log) = (dur_s \div dt_s) + 2
        /\ log[1] = <<0, VoltageOf(used[1].in)>>

(***************************************************************************)
(* C1 (amended): after loop exit, with duration >= 0 and dt > 0, the      *)
(* trace holds one sample when duration = 0 and ceil(duration/dt) + 2     *)
(* samples otherwise (12 for duration 10, dt 1); its first entry is       *)
(* (0, initial voltage), the voltage computed from q0_c with the source   *)
(* on.                                                                     *)
(***************************************************************************)
C1_TraceLength ==
    (LoopExit /\ dur_s >= 0 /\ dt_s > 0) =>
        /\ ~truncated
        /\ Len(log) = IF dur_s = 0 THEN 1 ELSE CeilDiv(dur_s, dt_s) + 2
        /\ (dur_s = 10 * SCALE /\ dt_s = SCALE => Len(log) = 12)
        /\ log[1] = <<0, VoltageOf(used[1].in)>>
        /\ used[1].in.q = q0_c /\ used[1].in.i = isc_a

C1_Witness ==
    /\ pc = "done" /\ dt_s > 0 /\ dur_s = 250 /\ dt_s = 100 /\ Len(log) = 5

C1_WitnessTwelve ==
    /\ pc = "done" /\ dur_s = 10 * SCALE /\ dt_s = SCALE /\ Len(log) = 12

(***************************************************************************)
(* C2 (as stated): the charge a sample's voltage is derived from is never *)
(* negative, the initialization sample included, whatever q0_c is.        *)
(***************************************************************************)
C2_ChargeNeverNegative ==
    HasVolt => \A k \in 1..Len(used) : used[k].in.q >= 0

(***************************************************************************)
(* C2 (amended): the charge every loop sample's voltage is derived from   *)
(* is never negative; the initialization sample is derived from q0_c as   *)
(* given, which is negative when the input is.                            *)
(***************************************************************************)
C2_LoopChargeNonNegative ==
    /\ HasVolt =>
         \A k \in 1..Len(used) :
            IF k = 1 /\ ~truncated
            THEN used[k].in.q = q0_c
            ELSE used[k].in.q >= 0
    /\ pc \in {"solar", "poweron", "discr", "volt", "clamp", "thresh", "append"}
         => qt_c >= 0 /\ (pc \in {"clamp", "thresh", "append"} => vin.q = qt_c)

C2_Witness ==
    /\ HasVolt /\ q0_c < 0 /\ Len(used) >= 3 /\ ~truncated
    /\ used[1].in.q < 0 /\ used[2].in.q = 0 /\ used[3].in.q > 0

(***************************************************************************)
(* C3: the discriminant handed to the node voltage computation, at        *)
(* initialization and in every iteration, is >= 0, so math.sqrt never     *)
(* raises.                                                                 *)
(***************************************************************************)
C3_DiscriminantNonNegative ==
    /\ pc \in {"ivolt", "volt"} => node_discr >= 0
    /\ err # "ValueError"

C3_Witness ==
    /\ pc = "volt" /\ "fallback" \in fired /\ node_discr >= 0 /\ p_on_w > 0

C3_WitnessInit ==
    /\ pc = "ivolt" /\ "fallback" \in fired /\ node_discr >= 0 /\ q0_c < 0

C5_TimeFields ==
    HasVolt =>
        /\ ~truncated =>
             /\ log[1][1] = 0
             /\ \A k \in 1..(Len(log) - 1) : log[k + 1][1] = (k - 1) * dt_s
        /\ \A k \in 2..(Len(log) - 1) : log[k + 1][1] = log[k][1] + dt_s
        /\ \A k \in 1..Len(log) : log[k][2] = VoltageOf(used[k].in)
        /\ pc = "advance" => log[Len(log)][1] = t_s
        /\ pc = "test" /\ Len(log) >= 2 => log[Len(log)][1] = t_s - dt_s

C5_Witness ==
    /\ HasVolt /\ ~truncated /\ dt_s > 0 /\ Len(log) >= 4
    /\ log[1][1] = 0 /\ log[2][1] = 0 /\ log[2][2] # log[1][2]
    /\ log[4][1] = 2 * dt_s

(***************************************************************************)
(* C6: runs with no solar input, sa_m2 = 0, every other parameter         *)
(* positive and q0_c >= 0.                                                 *)
(***************************************************************************)
NoSun ==
    /\ HasElec
    /\ sa_m2 = 0 /\ eff > 0 /\ voc > 0 /\ c_f > 0 /\ r_esr > 0 /\ q0_c >= 0
    /\ p_on_w > 0 /\ v_thresh > 0 /\ dt_s > 0 /\ dur_s > 0

\* sample k was computed with the load on
LoadOn(k) == used[k].in.p # 0
\* the threshold rule switched the load off at sample k
CutoffAt(k) == LoadOn(k) /\ "thresh" \in used[k].fired
\* a cutoff happened at sample k or before
CutoffBy(k) == \E j \in 1..k : CutoffAt(j)

(***************************************************************************)
(* C6 (as stated): with no solar input the source current is 0            *)
(* throughout, sample voltages are non-increasing up to the sample at     *)
(* which the threshold rule switches the load off, and every sample from  *)
(* that one on has the same voltage.                                       *)
(***************************************************************************)
C6_ConstantAfterCutoff ==
    NoSun =>
        /\ i1_a = 0
        /\ \A k \in 1..(Len(log) - 1) :
              IF CutoffBy(k)
              THEN log[k + 1][2] = log[k][2]
              ELSE log[k + 1][2] <= log[k][2]

(***************************************************************************)
(* C6 (amended): with no solar input the source current is 0 throughout   *)
(* and the charge never grows.  From one sample to the next the voltage   *)
(* is non-increasing while both are computed with the load on.  The       *)
(* sample after a threshold cutoff is computed from the same charge and   *)
(* is not below the cutoff sample (with the load off it is the higher,    *)
(* unloaded voltage charge/capacitance).  Between two samples computed    *)
(* with the load off, charge and voltage stay the same.                   *)
(***************************************************************************)
C6_NoSunDischarge ==
    NoSun =>
        /\ i1_a = 0 /\ isc_a = 0
        /\ \A k \in 1..(Len(log) - 1) :
              /\ used[k + 1].in.i = 0
              /\ used[k + 1].in.q <= used[k].in.q
              /\ LoadOn(k) /\ LoadOn(k + 1) => log[k + 1][2] <= log[k][2]
              /\ CutoffAt(k) =>
                    /\ used[k + 1].in.q = used[k].in.q
                    /\ log[k + 1][2] >= log[k][2]
                    /\ ~LoadOn(k + 1) => log[k + 1][2] = Div(used[k].in.q, c_f)
              /\ ~LoadOn(k) /\ ~LoadOn(k + 1) =>
                    /\ used[k + 1].in.q = used[k].in.q
                    /\ log[k + 1][2] = log[k][2]

\* a discharge of three samples, the cutoff, the rebound, then no change
C6_Witness ==
    /\ NoSun /\ Len(log) >= 4
    /\ \E k \in 2..(Len(log) - 2) :
          /\ LoadOn(k - 1) /\ log[k][2] < log[k - 1][2]
          /\ CutoffAt(k)
          /\ log[k + 1][2] > log[k][2]
          /\ log[k + 2][2] = log[k + 1][2]

C8_ZeroVoltageAborts ==
    [][ /\ err = ""
        /\ (pc = "load" /\ node_v = 0) =>
              /\ err' = "ZeroDivisionError"
              /\ pc' = "load"
              /\ log' = log
              /\ ~outfile'.exists ]_vars

\* the example of the claim: q0_c = 0 with sa_m2 = 0, the initial voltage is 0
C8_Witness ==
    /\ pc = "load" /\ err = "ZeroDivisionError" /\ node_v = 0
    /\ q0_c = 0 /\ sa_m2 = 0 /\ log = << <<0, 0>> >>
    /\ p_mode_w = 0 /\ ~outfile.exists

\* the same with the load on
C8_WitnessLoadOn ==
    /\ pc = "load" /\ err = "ZeroDivisionError" /\ node_v = 0
    /\ p_mode_w # 0 /\ ~outfile.exists

(***************************************************************************)
(* C9: once set, and after every statement, loadPower is 0 or p_on_w and  *)
(* sourceCurrent is 0 or isc_a, the parameters are those given, and isc_a *)
(* is irradiance*area*efficiency/openCircuitVoltage of those parameters.  *)
(***************************************************************************)
C9_ModesTwoValued ==
    HasElec =>
        /\ p_mode_w \in {0, p_on_w}
        /\ i1_a \in {0, isc_a}
        /\ params = argv
        /\ isc_a = calc_solar_current(irrad, argv[1], argv[2], argv[3])

\* a run in which both the source and the load have been on and off
C9_Witness ==
    /\ HasVolt /\ isc_a # 0 /\ p_on_w # 0
    /\ \E k \in 1..Len(used) : used[k].in.i = 0
    /\ \E k \in 1..Len(used) : used[k].in.i = isc_a
    /\ \E k \in 1..Len(used) : used[k].in.p = 0
    /\ \E k \in 1..Len(used) : used[k].in.p = p_on_w

(***************************************************************************)
(* C10: whenever the source clamp switches the source current off, at     *)
(* initialization or in an iteration, the voltage of that step, which is  *)
(* the voltage of the sample of that step, is >= voc.                     *)
(***************************************************************************)
C10_ClampOnlyAtHighVoltage ==
    HasVolt =>
        /\ "clamp" \in fired => node_v >= voc /\ i1_a = 0 /\ vin.i # 0
        /\ \A k \in 1..Len(log) :
              "clamp" \in used[k].fired => log[k][2] >= voc /\ used[k].in.i # 0
        /\ pc = "advance" => log[Len(log)] = <<t_s, node_v>>
                             /\ used[Len(log)].fired = fired

C10_Witness ==
    /\ HasVolt /\ Len(log) >= 3
    /\ "clamp" \in used[1].fired
    /\ \E k \in 2..Len(log) : "clamp" \in used[k].fired /\ log[k][2] >= voc

(***************************************************************************)
(* C11.  Whenever the threshold rule takes the load off, at               *)
(* initialization or in a loop iteration, the voltage computed in that    *)
(* step, which is the voltage of the sample appended for it, is below     *)
(* v_thresh, and the load power is 0.                                     *)
(***************************************************************************)
C11_CutoffBelowThreshold ==
    HasVolt =>
        /\ "thresh" \in fired => node_v < v_thresh /\ p_mode_w = 0
        /\ \A k \in 1..Len(log) :
              "thresh" \in used[k].fired => log[k][2] < v_thresh
        /\ pc = "advance" => log[Len(log)] = <<t_s, node_v>>
                             /\ used[Len(log)].fired = fired

\* the rule has switched a running load off in a loop iteration
C11_Witness ==
    /\ pc = "advance"
    /\ \E j \in 2..Len(log) : CutoffAt(j) /\ log[j][2] < v_thresh
    /\ p_on_w # 0

\* the rule has switched a running load off at initialization
C11_WitnessInit ==
    /\ pc = "test" /\ Len(log) = 1
    /\ CutoffAt(1) /\ node_v < v_thresh /\ p_mode_w = 0 /\ p_on_w # 0

(***************************************************************************)
(* C12.  A run started with a number of parameters other than 10 prints   *)
(* the usage line and exits without a simulation step: no parameter and   *)
(* no initial value is assigned, no sample is appended, no file is        *)
(* written, no exception is raised, and after the usage line nothing      *)
(* further runs.                                                           *)
(***************************************************************************)
C12_UsageExit ==
    Len(argv) # 10 =>
        /\ pc \in {"parse", "usage"} /\ err = ""
        /\ \A n \in 1..Len(params) : params[n] = NaN
        /\ \A n \in 1..Len(elec) : elec[n] = Unset
        /\ log = <<>> /\ used = <<>>
        /\ outfile = NoFile
        /\ pc = "parse" => stdout = <<>>
        /\ pc = "usage" => stdout = <<Usage>> /\ ~ ENABLED Next

\* the script has exited on one argument too many
C12_Witness ==
    /\ pc = "usage" /\ Len(argv) = 11
    /\ stdout = <<Usage>> /\ outfile = NoFile /\ log = <<>>

\* the script has exited on no arguments at all
C12_WitnessNone ==
    /\ pc = "usage" /\ argv = <<>>
    /\ stdout = <<Usage>> /\ outfile = NoFile /\ log = <<>>

\* Lines 127-128, 130-131: the source current and the load power a step
\* leaves behind, for the step of retained sample k.
EndCurrent(k) == IF "clamp" \in used[k].fired THEN 0 ELSE used[k].in.i
EndPower(k)   == IF "thresh" \in used[k].fired THEN 0 ELSE used[k].in.p

(***************************************************************************)
(* C14.  The load resumes only through the power-on rule: an iteration    *)
(* that starts with the load off and ends with it on follows a sample     *)
(* whose voltage was at least voc, and took the power-on rule.  So a load *)
(* that is off stays off through every iteration whose preceding sample   *)
(* is below voc.                                                           *)
(***************************************************************************)
C14_ResumeOnlyByPowerOn ==
    HasVolt =>
        /\ \A k \in 2..Len(log) :
              /\ EndPower(k - 1) = 0 /\ EndPower(k) # 0
                    => /\ log[k - 1][2] >= voc
                       /\ "poweron" \in used[k].fired
                       /\ EndPower(k) = p_on_w
              /\ EndPower(k - 1) = 0 /\ log[k - 1][2] < voc => EndPower(k) = 0
        /\ pc \in {"advance", "test", "load", "charge", "solar", "poweron"}
              => p_mode_w = EndPower(Len(log)) /\ node_v = log[Len(log)][2]
        /\ "poweron" \in fired /\ pc \in {"discr", "volt"}
              => node_v >= voc /\ node_v = log[Len(log)][2]

\* a load that the threshold rule had switched off is on again at the end
\* of a later iteration, after a sample at or above voc
C14_Witness ==
    /\ pc = "advance" /\ p_on_w # 0
    /\ \E j \in 1..Len(log) : \E k \in 2..Len(log) :
          /\ j < k /\ CutoffAt(j)
          /\ EndPower(k - 1) = 0 /\ EndPower(k) = p_on_w
          /\ log[k - 1][2] >= voc

\* a load that is off stays off through an iteration that follows a sample
\* below voc
C14_WitnessStaysOff ==
    /\ pc = "advance" /\ p_on_w # 0
    /\ \E k \in 2..Len(log) :
          EndPower(k - 1) = 0 /\ log[k - 1][2] < voc /\ EndPower(k) = 0

(***************************************************************************)
(* C15.  At the end of a loop iteration the source current is isc_a when  *)
(* the previous sample's voltage v_prev had 0 <= v_prev < voc and the     *)
(* voltage of this iteration is below voc too, and 0 in every other case. *)
(* The charge update of an iteration uses the source current the previous *)
(* step left, not the one the iteration then sets.                        *)
(***************************************************************************)
C15_SourceCurrentRule ==
    HasVolt =>
        /\ \A k \in 2..Len(log) :
              EndCurrent(k) =
                  IF 0 <= log[k - 1][2] /\ log[k - 1][2] < voc /\ log[k][2] < voc
                  THEN isc_a ELSE 0
        /\ pc = "advance" => i1_a = EndCurrent(Len(log))
        /\ pc = "solar" =>
              /\ i1_a = EndCurrent(Len(log))
              /\ i3_a = Div(EndPower(Len(log)), log[Len(log)][2])
              /\ LET q == vin.q + Mul(EndCurrent(Len(log)) - i3_a, dt_s)
                 IN  qt_c = IF q < 0 THEN 0 ELSE q

\* the charge has just been updated with a source current of 0, left by
\* the previous step, where the voltage test of this iteration gives isc_a
C15_Witness ==
    /\ pc = "solar" /\ Len(log) >= 2 /\ dt_s > 0
    /\ isc_a # 0 /\ i1_a = 0
    /\ 0 <= node_v /\ node_v < voc
    /\ qt_c = vin.q - Mul(i3_a, dt_s)
    /\ qt_c # vin.q + Mul(isc_a - i3_a, dt_s)

\* iterations have ended with the source current at isc_a and at 0
C15_WitnessBoth ==
    /\ pc = "advance" /\ isc_a # 0
    /\ \E j, k \in 2..Len(log) : EndCurrent(j) = isc_a /\ EndCurrent(k) = 0

(***************************************************************************)
(* C16.  The mode flags agree with the voltage of every sample: after the *)
(* corrections of the initialization and when a loop sample is appended,  *)
(* a nonzero load power comes with a voltage >= v_thresh and a nonzero    *)
(* source current with a voltage < voc.  So with v_thresh > 0 the load    *)
(* current of an iteration is never a nonzero power over a zero voltage.  *)
(***************************************************************************)
C16_FlagsAgreeWithVoltage ==
    HasVolt =>
        /\ pc \in {"test", "load", "append", "advance"} =>
              /\ p_mode_w # 0 => node_v >= v_thresh
              /\ i1_a # 0 => node_v < voc
        /\ \A k \in 1..Len(log) :
              (k < Len(log) \/ pc \notin {"iclamp", "ithresh"}) =>
                  /\ EndPower(k) # 0 => log[k][2] >= v_thresh
                  /\ EndCurrent(k) # 0 => log[k][2] < voc
        /\ pc = "load" /\ v_thresh > 0 /\ p_mode_w # 0 => node_v # 0
        /\ v_thresh > 0 /\ err # "" /\ pc = "load" => p_mode_w = 0

\* an iteration starts with load and source both on, the voltage between
\* a positive threshold and voc
C16_Witness ==
    /\ pc = "load" /\ Len(log) >= 2
    /\ v_thresh > 0 /\ p_mode_w # 0 /\ i1_a # 0
    /\ v_thresh <= node_v /\ node_v < voc

\* with a positive threshold the division fails on 0/0 only
C16_WitnessZeroOverZero ==
    /\ pc = "load" /\ err = "ZeroDivisionError"
    /\ v_thresh > 0 /\ p_on_w # 0 /\ p_mode_w = 0 /\ node_v = 0

\* the parameter ranges of C17
PhysicalParams ==
    /\ c_f > 0 /\ r_esr >= 0 /\ p_on_w >= 0 /\ q0_c >= 0 /\ dt_s >= 0
    /\ isc_a >= 0

(***************************************************************************)
(* C17.  With c_f > 0, r_esr >= 0, p_on_w >= 0, q0_c >= 0, dt_s >= 0 and  *)
(* isc_a >= 0 every sample voltage is >= 0, so the test 0 <= node_v of    *)
(* the source-current rule never fails; and a sample voltage is 0 only    *)
(* when charge/capacitance + source current * esr is 0 at that step.      *)
(***************************************************************************)
C17_VoltageNonNegative ==
    HasVolt /\ PhysicalParams =>
        /\ node_v >= 0
        /\ pc = "solar" => 0 <= node_v
        /\ \A k \in 1..Len(log) :
              /\ log[k][2] >= 0
              /\ log[k][2] = 0 =>
                    Div(used[k].in.q, c_f) + Mul(used[k].in.i, r_esr) = 0
              /\ log[k][2] = VoltageOf(used[k].in)

\* a run in the range has a sample at 0 V, with nothing on the node
C17_Witness ==
    /\ HasVolt /\ PhysicalParams
    /\ \E k \in 1..Len(log) : log[k][2] = 0 /\ used[k].in.q = 0

\* a run in the range with the load on and the array lit, through several
\* samples above 0 V
C17_WitnessPositive ==
    /\ HasVolt /\ PhysicalParams /\ Len(log) >= 3
    /\ isc_a > 0 /\ r_esr > 0
    /\ \A k \in 1..Len(log) : log[k][2] > 0 /\ used[k].in.p > 0

(***************************************************************************)
(* C18 (as stated).  A loop iteration that starts with the source current *)
(* 0 and the load power 0 leaves the charge as it was, whatever mode      *)
(* changes the iteration goes on to make; so the sample after a threshold *)
(* cutoff with the source off is computed from the charge of the cutoff   *)
(* sample.                                                                 *)
(***************************************************************************)
C18_IdleStepKeepsCharge ==
    HasVolt =>
        /\ \A k \in 2..Len(log) :
              EndCurrent(k - 1) = 0 /\ EndPower(k - 1) = 0
                  => used[k].in.q = used[k - 1].in.q
        /\ pc \in {"solar", "poweron", "discr", "volt", "clamp", "thresh", "append"} =>
              (EndCurrent(Len(log)) = 0 /\ EndPower(Len(log)) = 0
                  => qt_c = used[Len(log)].in.q)

(***************************************************************************)
(* C18 (amended).  A loop iteration that starts with the source current 0 *)
(* and the load power 0 draws no load current and leaves a charge >= 0 as *)
(* it was, whatever mode changes the iteration goes on to make; a         *)
(* negative charge, which only q0_c can give, it raises to 0.  So the     *)
(* sample after a threshold cutoff with the source off is computed from   *)
(* the charge of the cutoff sample when that charge is >= 0.              *)
(***************************************************************************)
C18_IdleStepKeepsChargeOrFloors ==
    HasVolt =>
        /\ \A k \in 2..Len(log) :
              EndCurrent(k - 1) = 0 /\ EndPower(k - 1) = 0 =>
                  /\ used[k].in.q = IF used[k - 1].in.q < 0 THEN 0 ELSE used[k - 1].in.q
                  /\ used[k - 1].in.q < 0 => k = 2 /\ ~ truncated /\ used[1].in.q = q0_c
        /\ pc \in {"solar", "poweron", "discr", "volt", "clamp", "thresh", "append"} =>
              (EndCurrent(Len(log)) = 0 /\ EndPower(Len(log)) = 0 =>
                  /\ i3_a = 0
                  /\ qt_c = IF used[Len(log)].in.q < 0 THEN 0 ELSE used[Len(log)].in.q)
        /\ pc \in {"load", "charge"} =>
              /\ i1_a = EndCurrent(Len(log)) /\ p_mode_w = EndPower(Len(log))
              /\ qt_c = used[Len(log)].in.q

\* an idle first iteration has raised a negative initial charge to 0
C18_WitnessFloor ==
    /\ pc = "advance" /\ Len(log) = 2
    /\ EndCurrent(1) = 0 /\ EndPower(1) = 0 /\ log[1][2] # 0
    /\ used[1].in.q < 0 /\ used[2].in.q = 0

\* the iteration after a threshold cutoff with the source off has kept the
\* charge of the cutoff sample
C18_Witness ==
    /\ pc = "advance" /\ dt_s > 0
    /\ \E k \in 2..Len(log) :
          /\ CutoffAt(k - 1) /\ EndCurrent(k - 1) = 0
          /\ log[k - 1][2] # 0
          /\ used[k].in.q = used[k - 1].in.q /\ used[k].in.q > 0

\* an iteration that started idle has switched the load on and kept the
\* charge
C18_WitnessModeChange ==
    /\ pc = "advance" /\ dt_s > 0 /\ p_on_w # 0 /\ isc_a # 0
    /\ \E k \in 2..Len(log) :
          /\ EndCurrent(k - 1) = 0 /\ EndPower(k - 1) = 0
          /\ "poweron" \in used[k].fired /\ used[k].in.p = p_on_w
          /\ used[k].in.q = used[k - 1].in.q
====
